---------------------------- MODULE Spec2Model ----------------------------
(***************************************************************************)
(* Incremental ingestion of NBA statistics into the raw.* tables:          *)
(* the reconcilers and run loops of update_database.py and the             *)
(* fetch-normalize-persist pipelines of ingestion/*.py, run against a      *)
(* PostgreSQL store (db/connection.py builds a postgresql+psycopg2 URL).   *)
(***************************************************************************)
EXTENDS Integers, Sequences, FiniteSets, Bags, TLC

\* ------------------------------------------------------------------ bounds
\* Entry points started in one behaviour (Spec, FairSpec).
MaxRuns == 2
\* Direct pipeline calls in one behaviour (SpecPipe).
MaxCalls == 2
\* Games of the season upstream (game ids 1..NumGames).
NumGames == 4
\* Identifiers of the reconciler's inputs in the delta specification.
MaxIds == 3
\* Characters of a column name in the normalizer's specification.
MaxLen == 2
\* BoxScore endpoints the column probe of nba_api.py goes through.
MaxEndpoints == 3

\* ------------------------------------------------------ upstream data set
None == "None"
Games == 1..NumGames
\* LeagueGameLog's GAME_DATE of a game: two games a day.
GameDate(g) == (g + 1) \div 2
Dates == {GameDate(g) : g \in Games}
GamesOn(d) == {g \in Games : GameDate(g) = d}
\* The players of a game's box score, in the order of the fetched frame.
BoxPlayers(g) == <<3 * g - 2, 3 * g - 1, 3 * g>>
PlayerGame(p) == (p + 2) \div 3
\* A fetched numeric field: a finite float, a missing value (NaN), a Python
\* float infinity, a numpy float64 infinity.
UpstreamVal(p) ==
    CASE p % 3 = 1 -> "1.5"
      [] p % 3 = 2 -> "nan"
      [] OTHER -> IF p % 2 = 1 THEN "inf" ELSE "np_inf"
\* The two teams of a game (LeagueGameLog has one row per team and game).
GameTeams(g) == <<2 * g - 1, 2 * g>>

RECURSIVE SetToSortedSeq(_)
\* Python's sorted() of a set of comparable identifiers: ascending.
SetToSortedSeq(S) ==
    IF S = {} THEN <<>>
    ELSE LET m == CHOOSE x \in S : \A y \in S : x <= y
         IN  <<m>> \o SetToSortedSeq(S \ {m})

RECURSIVE FlatMap(_, _)
\* Concatenation of the sequences F[s[1]], F[s[2]], ...
FlatMap(F, s) ==
    IF s = <<>> THEN <<>> ELSE F[Head(s)] \o FlatMap(F, Tail(s))

Range(s) == {s[i] : i \in DOMAIN s}

\* The games upstream has no player rows for: the endpoint answers with a
\* frame of zero rows (the third and the fourth game of every four).
ZeroRowGames == {g \in Games : g % 4 \in {0, 3}}
\* BoxScoreTraditionalV3(game_id).get_data_frames()[0], snake-cased.
BoxFrame(g) ==
    IF g \in ZeroRowGames THEN <<>>
    ELSE [i \in 1..3 |-> [game_id |-> g, person_id |-> BoxPlayers(g)[i],
                          val |-> UpstreamVal(BoxPlayers(g)[i])]]
\* LeagueDashPtStats(date_from = date_to = d): one row per player of the day.
PassingFrame(d) ==
    FlatMap([g \in Games |-> [i \in 1..3 |->
                 [player_id |-> BoxPlayers(g)[i], val |-> UpstreamVal(BoxPlayers(g)[i])]]],
            SetToSortedSeq(GamesOn(d) \ ZeroRowGames))
\* LeagueGameLog(season): one row per team of every game of the catalog.
LeagueFrame(cat) ==
    FlatMap([g \in Games |-> [i \in 1..2 |->
                 [game_id |-> g, team_id |-> GameTeams(g)[i], game_date |-> GameDate(g),
                  val |-> "1.5"]]],
            SetToSortedSeq(cat))


\* ------------------------------------------------------- relational store
\* A table is a bag of rows.  The composite key of a row: (game, player),
\* or (game, team) in raw.league_game_log.
Key(r) ==
    <<r.game_id, IF "person_id" \in DOMAIN r THEN r.person_id ELSE r.team_id>>
Rows(tbl) == BagToSet(tbl)
\* SQL NULL in a key or date column is written 0 (ids and dates start at 1).
IsNull(x) == x = 0
Conflicts(tbl, row) == \E r \in Rows(tbl) : Key(r) = Key(row)
AddRow(tbl, row) == tbl (+) SetToBag({row})
RowsOfGame(tbl, g) == {r \in Rows(tbl) : r.game_id = g}

\* The same statement on a table without its primary key: always adds.
InsertWithoutConstraint(tbl, row) == AddRow(tbl, row)

\* ON CONFLICT ... DO UPDATE: the stored row is replaced by the fetched one.
InsertOrOverwrite(tbl, row) ==
    SetToBag({r \in Rows(tbl) : Key(r) # Key(row)} \cup {row})

\* INSERT ... ON CONFLICT (game_id, person_id) DO NOTHING: the table after
\* the statement (rowcount is 1 when the row was added and 0 otherwise).
InsertOnConflictDoNothing(tbl, row) ==
    IF Conflicts(tbl, row) THEN tbl ELSE AddRow(tbl, row)

\* What a float reads as: pd.isna / math.isnan, np.isinf, and whether it is
\* an instance of np.floating (a Python float is not).
IsNaN(v) == v = "nan"
IsInf(v) == v \in {"inf", "np_inf"}
IsNumpy(v) == v = "np_inf"
IsFloat(v) == v \in {"1.5", "0.5", "nan", "inf", "np_inf"}

clean_nan_values(value) ==
    IF value = None THEN None
    ELSE IF IsNaN(value) THEN None
    ELSE IF IsFloat(value) /\ IsNaN(value) THEN None
    ELSE IF IsNumpy(value) /\ (IsNaN(value) \/ IsInf(value)) THEN None
    ELSE value

\* ------------------------------------------------------ column names
\* A column name is a sequence of characters: a lower-case letter, an
\* upper-case letter, a digit, an underscore.
Chars == {"a", "A", "1", "_"}
IsUpper(ch) == ch = "A"
IsLowerOrDigit(ch) == ch \in {"a", "1"}
ToLower(ch) == IF ch = "A" THEN "a" ELSE ch
ColumnNames == UNION {[1..n -> Chars] : n \in 1..MaxLen}

RECURSIVE InsertUnderscores(_)
\* .str.replace("([a-z0-9])([A-Z])", r"\1_\2", regex=True): an underscore
\* between a lower-case letter or digit and the upper-case letter after it.
InsertUnderscores(name) ==
    IF Len(name) < 2 THEN name
    ELSE IF IsLowerOrDigit(name[1]) /\ IsUpper(name[2])
         THEN <<name[1], "_">> \o InsertUnderscores(Tail(name))
         ELSE <<name[1]>> \o InsertUnderscores(Tail(name))

\* .str.lower()
Lower(name) == [i \in DOMAIN name |-> ToLower(name[i])]

snake_case_columns(cols) == [i \in DOMAIN cols |-> Lower(InsertUnderscores(cols[i]))]

\* --------------------------------------------------------------- pipelines
\* The result of one pipeline call: the table and the snapshot files after
\* it, whether it raised to its caller, and the counts it reports.
Result(tbl, fs, raised, ins, skp) ==
    [table |-> tbl, files |-> fs, raised |-> raised, inserted |-> ins, skipped |-> skp]

RECURSIVE InsertLoopAutocommit(_, _, _, _, _, _)
\* The same loop with every INSERT committed on its own: what was inserted
\* before an error stays.
InsertLoopAutocommit(tbl, cur, rows, aborted, ins, skp) ==
    IF rows = <<>> THEN
        [table |-> cur, raised |-> FALSE, inserted |-> ins, skipped |-> skp]
    ELSE IF aborted THEN
        [table |-> cur, raised |-> TRUE, inserted |-> ins, skipped |-> skp]
    ELSE IF Conflicts(cur, Head(rows)) THEN
        InsertLoopAutocommit(tbl, cur, Tail(rows), TRUE, ins, skp + 1)
    ELSE
        InsertLoopAutocommit(tbl, AddRow(cur, Head(rows)), Tail(rows), FALSE, ins + 1, skp)

RECURSIVE PlainInsertLoop(_, _, _, _, _, _)
\* "with engine.begin() as conn: for row: try: conn.execute(insert_sql)
\*  except IntegrityError: skipped += 1" with a plain INSERT.  tbl is the
\* table before the transaction, cur what the transaction sees.  After an
\* IntegrityError PostgreSQL has the transaction aborted: the next execute
\* raises InFailedSqlTransaction (sqlalchemy InternalError), which is not
\* caught and rolls the block back; a COMMIT of an aborted transaction (the
\* failed row was the last) is answered with ROLLBACK and raises nothing.
PlainInsertLoop(tbl, cur, rows, aborted, ins, skp) ==
    IF rows = <<>> THEN
        [table |-> IF aborted THEN tbl ELSE cur, raised |-> FALSE,
         inserted |-> ins, skipped |-> skp]
    ELSE IF aborted THEN
        [table |-> tbl, raised |-> TRUE, inserted |-> ins, skipped |-> skp]
    ELSE IF Conflicts(cur, Head(rows)) THEN
        PlainInsertLoop(tbl, cur, Tail(rows), TRUE, ins, skp + 1)
    ELSE
        PlainInsertLoop(tbl, AddRow(cur, Head(rows)), Tail(rows), FALSE, ins + 1, skp)

\* How a fetch can end: with the expected frame, with an exception (timeout,
\* HTTP error, unexpected JSON), or with a frame that lacks a column the
\* pipeline expects.
Fetches == {"ok", "error", "malformed"}
\* The outcomes the run loops are explored with: the request succeeds or it
\* fails.  A loop sees of a frame that lacks a column what it sees of one of
\* these two: the per-game pipeline raises as after a failed request, the
\* per-date pipeline returns the counts 0 and 0 as for a frame of zero rows.
LoopFetch(fetchOk) == IF fetchOk THEN "ok" ELSE "error"

\* The row loop of a transactional pipeline.  On a frame that lacks a column
\* bound in the INSERT statement the first execute raises (a value is
\* required for the bind parameter), which is not an IntegrityError: the
\* block is rolled back.  A frame of zero rows executes nothing.
InsertFrame(tbl, rows, fetch) ==
    IF fetch = "malformed"
    THEN [table |-> tbl, raised |-> rows # <<>>, inserted |-> 0, skipped |-> 0]
    ELSE PlainInsertLoop(tbl, tbl, rows, FALSE, 0, 0)

\* A pipeline that treats a frame of zero rows as a failed fetch.
IngestRaisingOnEmptyFrame(tbl, fs, game_id, fetch) ==
    IF fetch = "error" \/ BoxFrame(game_id) = <<>> THEN Result(tbl, fs, TRUE, 0, 0)
    ELSE LET r == InsertFrame(tbl, BoxFrame(game_id), fetch)
         IN  Result(r.table, fs \cup {<<"box_score_traditional_v3", game_id>>},
                    r.raised, r.inserted, r.skipped)

\* A pipeline that writes its snapshot after the upsert, when that succeeded.
IngestSnapshotAfterUpsert(tbl, fs, game_id, fetch) ==
    IF fetch = "error" THEN Result(tbl, fs, TRUE, 0, 0)
    ELSE LET r == InsertFrame(tbl, BoxFrame(game_id), fetch)
         IN  Result(r.table,
                    IF r.raised THEN fs ELSE fs \cup {<<"box_score_traditional_v3", game_id>>},
                    r.raised, r.inserted, r.skipped)

ingest_box_score_traditional_v3(tbl, fs, game_id, fetch) ==
    IF fetch = "error" THEN Result(tbl, fs, TRUE, 0, 0)
    ELSE LET r == InsertFrame(tbl, BoxFrame(game_id), fetch)
         IN  Result(r.table, fs \cup {<<"box_score_traditional_v3", game_id>>},
                    r.raised, r.inserted, r.skipped)

ingest_league_game_log(tbl, fs, cat, fetch) ==
    IF fetch = "error" THEN Result(tbl, fs, TRUE, 0, 0)
    ELSE LET r == InsertFrame(tbl, LeagueFrame(cat), fetch)
         IN  Result(r.table, fs \cup {<<"league_game_log", 0>>},
                    r.raised, r.inserted, r.skipped)

RECURSIVE TrackInsertLoop(_, _, _, _)
\* The row loop of ingest_box_score_player_track_v3: the numeric columns are
\* cleaned, the INSERT skips on conflict, and every executed row is counted
\* as inserted.
TrackInsertLoop(cur, rows, ins, skp) ==
    IF rows = <<>> THEN [table |-> cur, raised |-> FALSE, inserted |-> ins, skipped |-> skp]
    ELSE LET row_data == [Head(rows) EXCEPT !.val = clean_nan_values(@)]
         IN  TrackInsertLoop(InsertOnConflictDoNothing(cur, row_data), Tail(rows),
                             ins + 1, skp)

ingest_box_score_player_track_v3(tbl, fs, game_id, fetch) ==
    IF fetch = "error" THEN Result(tbl, fs, TRUE, 0, 0)
    ELSE LET r == IF fetch = "malformed"
                  THEN InsertFrame(tbl, BoxFrame(game_id), fetch)
                  ELSE TrackInsertLoop(tbl, BoxFrame(game_id), 0, 0)
         IN  Result(r.table, fs \cup {<<"box_score_player_track_v3", game_id>>},
                    r.raised, r.inserted, r.skipped)

\* SELECT DISTINCT person_id FROM raw.box_score_traditional_v3 WHERE game_id = :game_id
get_players_for_game(box, game_id) == {r.person_id : r \in RowsOfGame(box, game_id)}

\* A mapping that puts every fetched player in every game of the unit.
GameIdsForPlayerUnchecked(box, game_ids_for_date, player_id) ==
    Range(game_ids_for_date)

\* player_to_game_ids.get(player_id, set()) for the games of the unit.
GameIdsForPlayer(box, game_ids_for_date, player_id) ==
    {g \in Range(game_ids_for_date) : player_id \in get_players_for_game(box, g)}

\* A mapping that keeps an unmapped player, with a null game_id.
RowsForPlayerKeepingUnmapped(box, game_date, game_ids_for_date, row) ==
    LET found == GameIdsForPlayer(box, game_ids_for_date, row.player_id)
        gs == SetToSortedSeq(IF found = {} THEN {0} ELSE found)
    IN  [i \in 1..Len(gs) |->
            [game_id |-> gs[i], game_date |-> game_date, person_id |-> row.player_id,
             val |-> clean_nan_values(row.val)]]

\* The rows prepared for one fetched row: one per game the player is found
\* in, none when the player is found in no game of the unit.
RowsForPlayer(box, game_date, game_ids_for_date, row) ==
    LET gs == SetToSortedSeq(GameIdsForPlayer(box, game_ids_for_date, row.player_id))
    IN  [i \in 1..Len(gs) |->
            [game_id |-> gs[i], game_date |-> game_date, person_id |-> row.player_id,
             val |-> clean_nan_values(row.val)]]

RECURSIVE RowsToInsert(_, _, _, _)
RowsToInsert(box, game_date, game_ids_for_date, frame) ==
    IF frame = <<>> THEN <<>>
    ELSE RowsForPlayer(box, game_date, game_ids_for_date, Head(frame))
         \o RowsToInsert(box, game_date, game_ids_for_date, Tail(frame))

RECURSIVE SavepointInsertLoop(_, _, _, _)
\* The row loop of ingest_potential_ast_for_date: a savepoint per row, the
\* INSERT skips on conflict, result.rowcount decides inserted or skipped.
SavepointInsertLoop(cur, rows, ins, skp) ==
    IF rows = <<>> THEN [table |-> cur, raised |-> FALSE, inserted |-> ins, skipped |-> skp]
    ELSE LET new == InsertOnConflictDoNothing(cur, Head(rows))
         IN  IF new # cur
             THEN SavepointInsertLoop(new, Tail(rows), ins + 1, skp)
             ELSE SavepointInsertLoop(new, Tail(rows), ins, skp + 1)

\* A frame without a player-id column ("Could not find player_id column")
\* returns the counts 0 and 0, as a frame of zero rows does.
ingest_potential_ast_for_date(tbl, fs, box, game_date, game_ids_for_date, fetch) ==
    IF fetch = "error" THEN Result(tbl, fs, TRUE, 0, 0)
    ELSE LET passing_df == PassingFrame(game_date)
             rows_to_insert == RowsToInsert(box, game_date, game_ids_for_date, passing_df)
         IN  IF passing_df = <<>> \/ fetch = "malformed" \/ rows_to_insert = <<>>
             THEN Result(tbl, fs, FALSE, 0, 0)
             ELSE LET r == SavepointInsertLoop(tbl, rows_to_insert, 0, 0)
                  IN  Result(r.table,
                             fs \cup {<<"potential_ast", rows_to_insert[i].game_id>> :
                                         i \in DOMAIN rows_to_insert},
                             r.raised, r.inserted, r.skipped)

\* The same call when raw.potential_ast does not exist: every INSERT raises
\* inside its savepoint, "except Exception" rolls the savepoint back and
\* counts the row as skipped.
WithoutTable(missingTable, tbl, r) ==
    IF missingTable /\ ~r.raised
    THEN [r EXCEPT !.table = tbl, !.inserted = 0, !.skipped = r.inserted + r.skipped]
    ELSE r

\* ------------------------------------------------------------ discovery
\* set(games_df["GAME_ID"].unique()) of the catalog as it is when read.
get_all_game_ids_from_api(cat) == cat
\* The distinct GAME_DATE values of the catalog.
get_all_game_dates_from_api(cat) == {GameDate(g) : g \in cat}
\* SELECT DISTINCT game_id FROM <table>
get_ingested_game_ids_from_db(tbl) == {r.game_id : r \in Rows(tbl)}
\* potential_ast's readers return the empty set on any exception.
get_ingested_potential_ast_game_ids(tbl, dbOk) ==
    IF dbOk THEN {r.game_id : r \in Rows(tbl)} ELSE {}
get_ingested_game_dates_from_db(tbl, dbOk) ==
    IF dbOk THEN {r.game_date : r \in {x \in Rows(tbl) : ~IsNull(x.game_date)}} ELSE {}

\* A reconciler that does not consult the ledger.
MissingIgnoringLedger(remote, local) == SetToSortedSeq(remote)
\* A reconciler that takes the symmetric difference.
MissingSymmetric(remote, local) == SetToSortedSeq((remote \ local) \cup (local \ remote))

\* How a ledger read can end: with the rows, with UndefinedTable (the table
\* was never created, so it holds nothing), or with another error (database
\* unreachable, bad credentials).
DbReads(tbl) == {"ok", "error"} \cup (IF tbl = EmptyBag THEN {"no_table"} ELSE {})
\* What the run's readers returned, and how the reads ended.
Reads(api, db, dbRead, apiFailed) ==
    [api |-> api, db |-> db, dbFailed |-> dbRead # "ok", dbRead |-> dbRead,
     apiFailed |-> apiFailed]

\* A reconciler that takes everything again when nothing is missing.
MissingOrAll(remote, local) ==
    SetToSortedSeq(IF remote \ local = {} THEN remote ELSE remote \ local)

\* The reconciler: sorted(remote - local).
Missing(remote, local) == SetToSortedSeq(remote \ local)

\* One unit per game, in the order of the list.
GameUnits(game_ids) ==
    [i \in 1..Len(game_ids) |-> [key |-> game_ids[i], game_ids |-> <<game_ids[i]>>]]

\* A grouping that makes one unit per game, keyed by the game's date.
DateUnitsPerGame(cat, game_ids) ==
    LET found == SetToSortedSeq({g \in cat : g \in Range(game_ids)})
    IN  [i \in 1..Len(found) |-> [key |-> GameDate(found[i]), game_ids |-> <<found[i]>>]]

\* A grouping that leaves out the filter on the requested game ids.
DateUnitsUnfiltered(cat, game_ids) ==
    LET dates == SetToSortedSeq({GameDate(g) : g \in cat})
    IN  [i \in 1..Len(dates) |->
            [key |-> dates[i],
             game_ids |-> SetToSortedSeq({g \in cat : GameDate(g) = dates[i]})]]

\* games_df[games_df['GAME_ID'].isin(game_ids)].groupby('GAME_DATE')['GAME_ID']
\* .apply(list).to_dict(): groupby sorts the keys; one unit per date.
DateUnits(cat, game_ids) ==
    LET found == {g \in cat : g \in Range(game_ids)}
        dates == SetToSortedSeq({GameDate(g) : g \in found})
    IN  [i \in 1..Len(dates) |->
            [key |-> dates[i],
             game_ids |-> SetToSortedSeq({g \in found : GameDate(g) = dates[i]})]]

\* ------------------------------------------------------------------ state
VARIABLES
    catalog,     \* game ids the upstream LeagueGameLog lists
    bst,         \* raw.box_score_traditional_v3
    track,       \* raw.box_score_player_track_v3
    pa,          \* raw.potential_ast
    lgl,         \* raw.league_game_log
    files,       \* snapshot files on disk
    entry,       \* the entry point that ran last or is running
    script,      \* the entry points __main__ has still to call
    loop,        \* run loop: "IDLE" (no process), "PENDING", "DONE", "ABORTED" (raised)
    planned,     \* the units the run loop was entered with
    units,       \* units of the run still to dispatch
    dispatched,  \* pipeline calls of the run so far, in order
    trace,       \* upstream fetches and sleeps of the run, in order
    reads,       \* what the run's catalog and ledger readers returned
    atStart,     \* catalog and ledger as they were when the run read them
    runs,        \* entry points started so far
    lastCall,    \* the latest pipeline call of the process, with the table before it
    calls,       \* per (dataset, unit): what its direct pipeline calls reported
    R, L, missing, phase,  \* the reconciler on its own (SpecDelta)
    columns, normalized,   \* the column normalizer on its own (SpecNorm)
    requested, reread, grouped,  \* the grouping by date on its own (SpecGroup)
    probe,       \* nba_api.py: where main() and get_endpoint_columns are
    inflight,    \* nba_api.py: upstream calls running in worker threads
    issued       \* nba_api.py: calls submitted and timeouts taken, in order

vars == <<catalog, bst, track, pa, lgl, files, entry, script, loop, planned, units,
          dispatched, trace, reads, atStart, runs, lastCall, calls,
          R, L, missing, phase, columns, normalized, requested, reread, grouped,
          probe, inflight, issued>>
store == <<bst, track, pa, lgl, files>>
probeVars == <<probe, inflight, issued>>
delta == <<R, L, missing, phase, columns, normalized, requested, reread, grouped,
           probeVars>>

NoCall == [ds |-> None]
\* nba_api.py is not running.
NoProbe == [pc |-> "off", games |-> 0, endpoint |-> 0, game |-> 0, attempt |-> 0,
            result |-> None]
NoReads == [api |-> {}, db |-> {}, dbFailed |-> FALSE, dbRead |-> "ok", apiFailed |-> FALSE]

\* Rows a store may hold before the first run: none, or one row of game 1
\* ingested earlier with another value (the middle or the last player).
SeedPlayers == {0, 2, 3}
SeedBox(p) ==
    IF p = 0 THEN EmptyBag
    ELSE SetToBag({[game_id |-> PlayerGame(p), person_id |-> p, val |-> "0.5"]})
SeedPa(p) ==
    IF p = 0 THEN EmptyBag
    ELSE SetToBag({[game_id |-> PlayerGame(p), game_date |-> GameDate(PlayerGame(p)),
                    person_id |-> p, val |-> "0.5"]})

InitRest ==
    /\ catalog = {}
    /\ lgl = EmptyBag
    /\ files = {}
    /\ entry = None
    /\ script = <<>>
    /\ loop = "IDLE"
    /\ planned = <<>>
    /\ units = <<>>
    /\ dispatched = <<>>
    /\ trace = <<>>
    /\ reads = NoReads
    /\ atStart = [catalog |-> {}, ledger |-> {}]
    /\ runs = 0
    /\ lastCall = NoCall
    /\ calls = <<>>
    /\ R = {} /\ L = {} /\ missing = <<>> /\ phase = "off"
    /\ columns = <<>> /\ normalized = <<>>
    /\ requested = <<>> /\ reread = {} /\ grouped = <<>>
    /\ probe = NoProbe /\ inflight = {} /\ issued = <<>>

\* A fresh schema: every table is empty.
Init ==
    /\ bst = EmptyBag /\ track = EmptyBag /\ pa = EmptyBag
    /\ InitRest

\* A store that may already hold a row of an earlier ingestion.
InitPipe ==
    /\ \E p \in SeedPlayers : bst = SeedBox(p) /\ track = SeedBox(p) /\ pa = SeedPa(p)
    /\ InitRest

\* ---------------------------------------------------------- bookkeeping
BoxDs == "box_score_traditional_v3"
TrackDs == "box_score_player_track_v3"
PaDs == "potential_ast"
LglDs == "league_game_log"

\* A pipeline call as the checks see it: its unit, the table before and after
\* it, and what it reported.
CallRec(ds, u, fetch, before, r) ==
    [ds |-> ds, unit |-> u.key, game_ids |-> u.game_ids, fetchOk |-> fetch = "ok",
     fetch |-> fetch, filesBefore |-> files,
     before |-> before, after |-> r.table, raised |-> r.raised,
     inserted |-> r.inserted, skipped |-> r.skipped]
Outcome(c) == [raised |-> c.raised, inserted |-> c.inserted, skipped |-> c.skipped]
CallKey(c) == <<c.ds, c.unit, c.game_ids>>
\* The outcomes of the direct calls of a pipeline for one unit, in order.
Logged(c) ==
    IF CallKey(c) \in DOMAIN calls THEN [calls EXCEPT ![CallKey(c)] = Append(@, Outcome(c))]
    ELSE (CallKey(c) :> <<Outcome(c)>>) @@ calls

Fetch(key) == [ev |-> "fetch", unit |-> key]
Sleep == [ev |-> "sleep", unit |-> 0]

\* A new entry point starts when the process is not inside another one:
\* from the operator (bounded by MaxRuns), or as the next call of __main__.
CanStart(name) ==
    \/ script = <<>> /\ loop = "IDLE" /\ runs < MaxRuns
    \/ script # <<>> /\ Head(script) = name /\ loop = "DONE"
RunsAfter == IF script = <<>> THEN runs + 1 ELSE runs
\* An exception that leaves the entry point ends the script.
ScriptAfter(raised) == IF raised \/ script = <<>> THEN <<>> ELSE Tail(script)
Catalogs == {1..k : k \in 0..NumGames}
\* The catalog as a later read of the same run may find it.
LaterCatalogs(cat) == {c \in Catalogs : cat \subseteq c}

\* ---------------------------------------------------------------- actions
\* Upstream: the next game of the season is played and listed.  (While a
\* process runs, the catalog changes only in what its later reads find.)
GamePlayed ==
    /\ catalog # Games
    /\ loop = "IDLE"
    /\ catalog' = catalog \cup {Cardinality(catalog) + 1}
    /\ UNCHANGED <<store, entry, script, loop, planned, units, dispatched, trace,
                   reads, atStart, runs, lastCall, calls, delta>>

\* A discovery phase that goes on with what it has when a read raised.
EnterLoopAfterFailedRead(name, us, rd, at, raised) ==
    /\ entry' = name
    /\ script' = ScriptAfter(FALSE)
    /\ runs' = RunsAfter
    /\ loop' = IF us = <<>> THEN "DONE" ELSE "PENDING"
    /\ planned' = us
    /\ units' = us
    /\ dispatched' = <<>>
    /\ trace' = <<>>
    /\ reads' = rd
    /\ atStart' = at
    /\ lastCall' = IF script = <<>> THEN NoCall ELSE lastCall
    /\ UNCHANGED <<store, calls, delta>>

\* The run loop is entered with these units (or returns at once with none).
EnterLoop(name, us, rd, at, raised) ==
    /\ entry' = name
    /\ script' = ScriptAfter(raised)
    /\ runs' = RunsAfter
    /\ loop' = IF raised THEN "ABORTED" ELSE IF us = <<>> THEN "DONE" ELSE "PENDING"
    /\ planned' = IF raised THEN <<>> ELSE us
    /\ units' = IF raised THEN <<>> ELSE us
    /\ dispatched' = <<>>
    /\ trace' = <<>>
    /\ reads' = rd
    /\ atStart' = at
    /\ lastCall' = IF script = <<>> THEN NoCall ELSE lastCall
    /\ UNCHANGED <<store, calls, delta>>

\* The process ends: the entry point returned or raised, and __main__ has no
\* further call to make.
Leave(runsAfter) ==
    /\ loop \in {"DONE", "ABORTED"} /\ script = <<>>
    /\ loop' = "IDLE"
    /\ entry' = None
    /\ planned' = <<>>
    /\ units' = <<>>
    /\ dispatched' = <<>>
    /\ trace' = <<>>
    /\ reads' = NoReads
    /\ atStart' = [catalog |-> {}, ledger |-> {}]
    /\ lastCall' = NoCall
    /\ runs' = runsAfter
    /\ UNCHANGED <<catalog, store, script, calls, delta>>

Exit == Leave(runs)
\* The same, with no bound on how often the operator runs the program again.
ExitForRerun == Leave(0)

\* update_box_score_traditional_v3 up to its loop: both reads raise to the
\* caller when they fail.
StartUpdateBox ==
    /\ CanStart("update_box_score_traditional_v3")
    /\ \E apiOk \in BOOLEAN : \E dbRead \in DbReads(bst) :
        LET api_game_ids == get_all_game_ids_from_api(catalog)
            db_game_ids == get_ingested_game_ids_from_db(bst)
            missing_game_ids == Missing(api_game_ids, db_game_ids)
        IN  EnterLoop("update_box_score_traditional_v3", GameUnits(missing_game_ids),
                      Reads(api_game_ids, db_game_ids, dbRead, ~apiOk),
                      [catalog |-> catalog, ledger |-> {r.game_id : r \in Rows(bst)}],
                      ~apiOk \/ dbRead # "ok")
    /\ UNCHANGED catalog

\* update_potential_ast: missing games, regrouped by date from a second
\* catalog read inside ingest_potential_ast_for_game_ids.
StartUpdatePotentialAst ==
    /\ CanStart("update_potential_ast")
    /\ \E apiOk, api2Ok \in BOOLEAN : \E dbRead \in DbReads(pa) :
       \E cat2 \in LaterCatalogs(catalog) :
        LET api_game_ids == get_all_game_ids_from_api(catalog)
            db_game_ids == get_ingested_potential_ast_game_ids(pa, dbRead = "ok")
            missing_game_ids == Missing(api_game_ids, db_game_ids)
            second == apiOk /\ missing_game_ids # <<>>
        IN  /\ EnterLoop("update_potential_ast",
                         IF missing_game_ids = <<>> THEN <<>>
                         ELSE DateUnits(cat2, missing_game_ids),
                         Reads(api_game_ids, db_game_ids, dbRead,
                               ~apiOk \/ (second /\ ~api2Ok)),
                         [catalog |-> catalog, ledger |-> {r.game_id : r \in Rows(pa)}],
                         ~apiOk \/ (second /\ ~api2Ok))
            /\ catalog' = IF second /\ api2Ok THEN cat2 ELSE catalog

\* A reprocess-all mode that leaves out the games the ledger holds.
StartUpdatePotentialAstAllMissingOnly ==
    /\ CanStart("update_potential_ast_all")
    /\ \E apiOk, api2Ok \in BOOLEAN : \E cat2 \in LaterCatalogs(catalog) :
        LET api_game_ids == get_all_game_ids_from_api(catalog)
            db_game_ids == get_ingested_potential_ast_game_ids(pa, TRUE)
        IN  /\ EnterLoop("update_potential_ast_all",
                         DateUnits(cat2, SetToSortedSeq(api_game_ids \ db_game_ids)),
                         Reads(api_game_ids, {}, "ok", ~apiOk \/ ~api2Ok),
                         [catalog |-> catalog, ledger |-> {r.game_id : r \in Rows(pa)}],
                         ~apiOk \/ ~api2Ok)
            /\ catalog' = IF apiOk /\ api2Ok THEN cat2 ELSE catalog

\* update_potential_ast_all: every catalog game, whatever the ledger holds.
StartUpdatePotentialAstAll ==
    /\ CanStart("update_potential_ast_all")
    /\ \E apiOk, api2Ok \in BOOLEAN : \E cat2 \in LaterCatalogs(catalog) :
        LET api_game_ids == get_all_game_ids_from_api(catalog)
        IN  /\ EnterLoop("update_potential_ast_all",
                         DateUnits(cat2, SetToSortedSeq(api_game_ids)),
                         Reads(api_game_ids, {}, "ok", ~apiOk \/ ~api2Ok),
                         [catalog |-> catalog, ledger |-> {r.game_id : r \in Rows(pa)}],
                         ~apiOk \/ ~api2Ok)
            /\ catalog' = IF apiOk /\ api2Ok THEN cat2 ELSE catalog

\* update_potential_ast_daily: the dates not in the ledger, then the games
\* of those dates (second read), regrouped by date (third read); api2Ok is
\* whether both later reads succeed.
StartUpdatePotentialAstDaily ==
    /\ CanStart("update_potential_ast_daily")
    /\ \E apiOk, api2Ok \in BOOLEAN : \E dbRead \in DbReads(pa) :
       \E cat2 \in LaterCatalogs(catalog) : \E cat3 \in LaterCatalogs(cat2) :
        LET api_dates == get_all_game_dates_from_api(catalog)
            db_dates == get_ingested_game_dates_from_db(pa, dbRead = "ok")
            new_dates == Missing(api_dates, db_dates)
            new_game_ids == SetToSortedSeq({g \in cat2 : GameDate(g) \in Range(new_dates)})
            later == apiOk /\ new_dates # <<>>
        IN  /\ EnterLoop("update_potential_ast_daily",
                         IF new_dates = <<>> THEN <<>> ELSE DateUnits(cat3, new_game_ids),
                         Reads(api_dates, db_dates, dbRead, ~apiOk \/ (later /\ ~api2Ok)),
                         [catalog |-> {GameDate(g) : g \in catalog},
                          ledger |-> {r.game_date : r \in Rows(pa)}],
                         ~apiOk \/ (later /\ ~api2Ok))
            /\ catalog' = IF later /\ api2Ok THEN cat3 ELSE catalog

\* A fail-fast loop: the first unit that raises ends the run.
LoopFailFast(raised, rest) ==
    IF raised THEN "ABORTED" ELSE IF rest = <<>> THEN "DONE" ELSE "PENDING"

\* The loop after a unit: "except Exception" catches whatever the pipeline
\* raised, and the loop goes on to the next unit or falls through when none
\* is left.
LoopAfterUnit(raised, rest) == IF rest = <<>> THEN "DONE" ELSE "PENDING"

\* One iteration of update_box_score_traditional_v3's loop: the pipeline for
\* the next game inside try/except Exception, then the sleep.
DispatchGame ==
    /\ entry = "update_box_score_traditional_v3" /\ loop = "PENDING"
    /\ \E fetchOk \in BOOLEAN :
        LET fetch == LoopFetch(fetchOk)
            u == Head(units)
            r == ingest_box_score_traditional_v3(bst, files, u.key, fetch)
            c == CallRec(BoxDs, u, fetch, bst, r)
        IN  /\ bst' = r.table
            /\ files' = r.files
            /\ dispatched' = Append(dispatched, c)
            /\ lastCall' = c
            /\ loop' = LoopAfterUnit(r.raised, Tail(units))
            /\ trace' = trace \o <<Fetch(u.key), Sleep>>
    /\ units' = Tail(units)
    /\ UNCHANGED <<planned, catalog, track, pa, lgl, entry, script, reads, atStart, runs, calls, delta>>

\* One iteration of ingest_potential_ast_for_game_ids' loop: the pipeline for
\* the next date; the sleep is inside the try, after the call, and only when
\* another date follows.
DispatchDate ==
    /\ entry \in {"update_potential_ast", "update_potential_ast_all",
                  "update_potential_ast_daily"}
    /\ loop = "PENDING"
    /\ \E fetchOk \in BOOLEAN :
        LET fetch == LoopFetch(fetchOk)
            u == Head(units)
            r == WithoutTable(reads.dbRead = "no_table", pa,
                     ingest_potential_ast_for_date(pa, files, bst, u.key, u.game_ids, fetch))
            c == CallRec(PaDs, u, fetch, pa, r)
        IN  /\ pa' = r.table
            /\ files' = r.files
            /\ dispatched' = Append(dispatched, c)
            /\ lastCall' = c
            /\ loop' = LoopAfterUnit(r.raised, Tail(units))
            /\ trace' = trace \o <<Fetch(u.key)>>
                        \o (IF ~r.raised /\ Tail(units) # <<>> THEN <<Sleep>> ELSE <<>>)
    /\ units' = Tail(units)
    /\ UNCHANGED <<planned, catalog, bst, track, lgl, entry, script, reads, atStart, runs, calls, delta>>

\* A pipeline called on its own for one unit.
Called(name, c, raised) ==
    /\ entry' = name
    /\ script' = <<>>
    /\ runs' = runs + 1
    /\ loop' = IF raised THEN "ABORTED" ELSE "DONE"
    /\ planned' = <<>>
    /\ units' = <<>>
    /\ dispatched' = <<c>>
    /\ trace' = <<Fetch(c.unit)>>
    /\ reads' = NoReads
    /\ atStart' = [catalog |-> {}, ledger |-> {}]
    /\ lastCall' = c
    /\ calls' = Logged(c)
    /\ UNCHANGED delta

CallBoxPipeline ==
    /\ script = <<>> /\ loop = "IDLE" /\ runs < MaxCalls
    /\ \E g \in Games : \E fetch \in Fetches :
        LET u == [key |-> g, game_ids |-> <<g>>]
            r == ingest_box_score_traditional_v3(bst, files, g, fetch)
        IN  /\ bst' = r.table
            /\ files' = r.files
            /\ Called("ingest_box_score_traditional_v3",
                      CallRec(BoxDs, u, fetch, bst, r), r.raised)
    /\ UNCHANGED <<catalog, track, pa, lgl>>

CallTrackPipeline ==
    /\ script = <<>> /\ loop = "IDLE" /\ runs < MaxCalls
    /\ \E g \in Games : \E fetch \in Fetches :
        LET u == [key |-> g, game_ids |-> <<g>>]
            r == ingest_box_score_player_track_v3(track, files, g, fetch)
        IN  /\ track' = r.table
            /\ files' = r.files
            /\ Called("ingest_box_score_player_track_v3",
                      CallRec(TrackDs, u, fetch, track, r), r.raised)
    /\ UNCHANGED <<catalog, bst, pa, lgl>>

CallPotentialAstPipeline ==
    /\ script = <<>> /\ loop = "IDLE" /\ runs < MaxCalls
    /\ \E d \in Dates : \E gs \in SUBSET GamesOn(d) : \E fetch \in Fetches :
        LET u == [key |-> d, game_ids |-> SetToSortedSeq(gs)]
            r == ingest_potential_ast_for_date(pa, files, bst, d, u.game_ids, fetch)
        IN  /\ gs # {}
            /\ pa' = r.table
            /\ files' = r.files
            /\ Called("ingest_potential_ast_for_date",
                      CallRec(PaDs, u, fetch, pa, r), r.raised)
    /\ UNCHANGED <<catalog, bst, track, lgl>>

\* The season's log is fetched as upstream lists it at the time of the call:
\* games may have been played since the call before.
CallLeagueGameLogPipeline ==
    /\ script = <<>> /\ loop = "IDLE" /\ runs < MaxCalls
    /\ \E fetch \in Fetches : \E cat \in LaterCatalogs(catalog) :
        LET u == [key |-> 0, game_ids |-> SetToSortedSeq(cat)]
            r == ingest_league_game_log(lgl, files, cat, fetch)
        IN  /\ lgl' = r.table
            /\ files' = r.files
            /\ catalog' = cat
            /\ Called("ingest_league_game_log",
                      CallRec(LglDs, u, fetch, lgl, r), r.raised)
    /\ UNCHANGED <<bst, track, pa>>

\* __main__: update_league_game_log() first; it re-raises what the pipeline
\* raises, which ends the script; otherwise the other stages follow.
StartMain ==
    /\ script = <<>> /\ loop = "IDLE" /\ runs < MaxRuns
    /\ \E fetch \in Fetches :
        LET u == [key |-> 0, game_ids |-> SetToSortedSeq(catalog)]
            r == ingest_league_game_log(lgl, files, catalog, fetch)
            c == CallRec(LglDs, u, fetch, lgl, r)
        IN  /\ lgl' = r.table
            /\ files' = r.files
            /\ entry' = "update_league_game_log"
            /\ script' = IF r.raised THEN <<>>
                         ELSE <<"update_box_score_traditional_v3",
                                "update_potential_ast_daily">>
            /\ loop' = IF r.raised THEN "ABORTED" ELSE "DONE"
            /\ dispatched' = <<c>>
            /\ lastCall' = c
    /\ runs' = runs + 1
    /\ planned' = <<>>
    /\ units' = <<>>
    /\ trace' = <<Fetch(0)>>
    /\ reads' = NoReads
    /\ atStart' = [catalog |-> {}, ledger |-> {}]
    /\ UNCHANGED <<catalog, bst, track, pa, calls, delta>>

Next ==
    \/ GamePlayed
    \/ StartMain
    \/ StartUpdateBox
    \/ StartUpdatePotentialAst
    \/ StartUpdatePotentialAstAll
    \/ StartUpdatePotentialAstDaily
    \/ DispatchGame
    \/ DispatchDate
    \/ Exit

Spec == Init /\ [][Next]_vars

\* The pipelines called on their own, any unit, any number of times.
NextPipe ==
    \/ CallBoxPipeline
    \/ CallTrackPipeline
    \/ CallPotentialAstPipeline
    \/ CallLeagueGameLogPipeline
    \/ Exit

SpecPipe == InitPipe /\ [][NextPipe]_vars

\* The reconciler on its own, for any remote and local sets of identifiers.
Ids == 1..MaxIds
InitDelta ==
    /\ bst = EmptyBag /\ track = EmptyBag /\ pa = EmptyBag
    /\ catalog = {} /\ lgl = EmptyBag /\ files = {} /\ entry = None /\ script = <<>>
    /\ loop = "IDLE" /\ planned = <<>> /\ units = <<>> /\ dispatched = <<>>
    /\ trace = <<>> /\ reads = NoReads /\ atStart = [catalog |-> {}, ledger |-> {}]
    /\ runs = 0 /\ lastCall = NoCall /\ calls = <<>>
    /\ R \in SUBSET Ids /\ L \in SUBSET Ids /\ missing = <<>> /\ phase = "read"
    /\ columns = <<>> /\ normalized = <<>>
    /\ requested = <<>> /\ reread = {} /\ grouped = <<>>
    /\ probe = NoProbe /\ inflight = {} /\ issued = <<>>

Reconcile ==
    /\ phase = "read"
    /\ missing' = Missing(R, L)
    /\ phase' = "reconciled"
    /\ UNCHANGED <<catalog, store, entry, script, loop, planned, units, dispatched,
                   trace, reads, atStart, runs, lastCall, calls, R, L,
                   columns, normalized, requested, reread, grouped, probeVars>>

SpecDelta == InitDelta /\ [][Reconcile]_vars

\* The normalizer on its own, for a frame of two distinct column names.
InitNorm ==
    /\ bst = EmptyBag /\ track = EmptyBag /\ pa = EmptyBag
    /\ catalog = {} /\ lgl = EmptyBag /\ files = {} /\ entry = None /\ script = <<>>
    /\ loop = "IDLE" /\ planned = <<>> /\ units = <<>> /\ dispatched = <<>>
    /\ trace = <<>> /\ reads = NoReads /\ atStart = [catalog |-> {}, ledger |-> {}]
    /\ runs = 0 /\ lastCall = NoCall /\ calls = <<>>
    /\ R = {} /\ L = {} /\ missing = <<>> /\ phase = "off"
    /\ columns \in {c \in ColumnNames \X ColumnNames : c[1] # c[2]}
    /\ normalized = <<>>
    /\ requested = <<>> /\ reread = {} /\ grouped = <<>>
    /\ probe = NoProbe /\ inflight = {} /\ issued = <<>>

Normalize ==
    /\ columns # <<>> /\ normalized = <<>>
    /\ normalized' = snake_case_columns(columns)
    /\ UNCHANGED <<catalog, store, entry, script, loop, planned, units, dispatched,
                   trace, reads, atStart, runs, lastCall, calls, R, L, missing, phase,
                   columns, requested, reread, grouped, probeVars>>

SpecNorm == InitNorm /\ [][Normalize]_vars

\* The grouping of ingest_potential_ast_for_game_ids on its own: any sorted
\* list of requested game ids, and any catalog found by the read inside the
\* function (a requested game may no longer be listed).
InitGroup ==
    /\ bst = EmptyBag /\ track = EmptyBag /\ pa = EmptyBag
    /\ catalog = {} /\ lgl = EmptyBag /\ files = {} /\ entry = None /\ script = <<>>
    /\ loop = "IDLE" /\ planned = <<>> /\ units = <<>> /\ dispatched = <<>>
    /\ trace = <<>> /\ reads = NoReads /\ atStart = [catalog |-> {}, ledger |-> {}]
    /\ runs = 0 /\ lastCall = NoCall /\ calls = <<>>
    /\ R = {} /\ L = {} /\ missing = <<>> /\ phase = "group"
    /\ columns = <<>> /\ normalized = <<>>
    /\ requested \in {SetToSortedSeq(S) : S \in SUBSET Games}
    /\ reread \in SUBSET Games
    /\ grouped = <<>>
    /\ probe = NoProbe /\ inflight = {} /\ issued = <<>>

Group ==
    /\ phase = "group"
    /\ grouped' = DateUnits(reread, requested)
    /\ phase' = "grouped"
    /\ UNCHANGED <<catalog, store, entry, script, loop, planned, units, dispatched,
                   trace, reads, atStart, runs, lastCall, calls, R, L, missing,
                   columns, normalized, requested, reread, probeVars>>

SpecGroup == InitGroup /\ [][Group]_vars

\* ------------------------------------------------ nba_api.py: column probe
\* attempts = [{"game_id": ...}, {"game_id": ..., "season": ...}]
Attempts == 2
\* get_sample_game_ids(count=3)
SampleGames == 3
Endpoints == 1..MaxEndpoints
\* problematic_endpoints: skipped without a call (the second endpoint).
Problematic == {e \in Endpoints : e = 2}
\* What try_endpoint returns: the columns, an error message, or neither (a
\* TypeError before the last attempt, a frame set without columns).
Outcomes == {"columns", "error", "nothing"}

\* The upstream call of the current attempt, and an entry of the log.
CallOf(p) == [endpoint |-> p.endpoint, game |-> p.game, attempt |-> p.attempt]
Event(ev, p) ==
    [ev |-> ev, endpoint |-> p.endpoint, game |-> p.game, attempt |-> p.attempt]

\* Everything but the probe's own variables.
appVars == <<catalog, store, entry, script, loop, planned, units, dispatched, trace,
             reads, atStart, runs, lastCall, calls, R, L, missing, phase,
             columns, normalized, requested, reread, grouped>>

InitProbe ==
    /\ bst = EmptyBag /\ track = EmptyBag /\ pa = EmptyBag
    /\ catalog = {} /\ lgl = EmptyBag /\ files = {} /\ entry = None /\ script = <<>>
    /\ loop = "IDLE" /\ planned = <<>> /\ units = <<>> /\ dispatched = <<>>
    /\ trace = <<>> /\ reads = NoReads /\ atStart = [catalog |-> {}, ledger |-> {}]
    /\ runs = 0 /\ lastCall = NoCall /\ calls = <<>>
    /\ R = {} /\ L = {} /\ missing = <<>> /\ phase = "off"
    /\ columns = <<>> /\ normalized = <<>>
    /\ requested = <<>> /\ reread = {} /\ grouped = <<>>
    /\ probe = [NoProbe EXCEPT !.pc = "main"]
    /\ inflight = {} /\ issued = <<>>

\* The end of an endpoint's iteration in main(): the sleep between endpoints
\* when another follows, then the next endpoint, or the end of the program.
NextEndpoint(p) ==
    [p EXCEPT !.pc = IF p.endpoint < MaxEndpoints THEN "endpoint" ELSE "done",
              !.endpoint = IF p.endpoint < MaxEndpoints THEN @ + 1 ELSE @,
              !.game = 0, !.attempt = 0, !.result = None]

\* get_endpoint_columns returns to main().
Returned(p, result) == [p EXCEPT !.pc = "returned", !.result = result]

\* A caller that gives up on an endpoint only when it has its columns.
StopsGameLoopOnColumns(result) == result = "columns"

\* main() leaves the loop over the game ids: "if columns: break" and
\* "if error_msg and 'timed out' in error_msg.lower(): break".
StopsGameLoop(result) == result \in {"columns", "timed_out"}

\* main() up to its loop: the sample game ids, or exit(1) without any.
ProbeMain ==
    /\ probe.pc = "main"
    /\ \E n \in 0..SampleGames :
        probe' = IF n = 0 THEN [probe EXCEPT !.pc = "done"]
                 ELSE [probe EXCEPT !.pc = "endpoint", !.games = n, !.endpoint = 1]
    /\ UNCHANGED <<appVars, inflight, issued>>

\* The head of the loop body: a problematic endpoint is skipped, for any
\* other the loop over the game ids starts.
BeginEndpoint ==
    /\ probe.pc = "endpoint"
    /\ probe' = IF probe.endpoint \in Problematic THEN NextEndpoint(probe)
                ELSE [probe EXCEPT !.pc = "call", !.game = 1]
    /\ issued' = <<>>
    /\ UNCHANGED <<appVars, inflight>>

\* get_endpoint_columns up to its loop: the constructor's signature is
\* inspected, and a new executor with one worker is made.
CallGetEndpointColumns ==
    /\ probe.pc = "call"
    /\ \E inspected \in BOOLEAN :
        probe' = IF inspected THEN [probe EXCEPT !.pc = "submit", !.attempt = 1]
                 ELSE Returned(probe, "error")
    /\ UNCHANGED <<appVars, inflight, issued>>

\* executor.submit(try_endpoint, kwargs, attempt_num): the worker starts the
\* upstream call; the main thread waits in future.result(timeout=timeout).
Submit ==
    /\ probe.pc = "submit"
    /\ inflight' = inflight \cup {CallOf(probe)}
    /\ issued' = Append(issued, Event("submit", probe))
    /\ probe' = [probe EXCEPT !.pc = "waiting"]
    /\ UNCHANGED appVars

\* The worker finishes in time: the columns are returned, the last attempt
\* returns an error, any other attempt goes on to the next.
WorkerReturns ==
    /\ probe.pc = "waiting" /\ CallOf(probe) \in inflight
    /\ \E outcome \in Outcomes :
        probe' = IF outcome = "columns" THEN Returned(probe, "columns")
                 ELSE IF probe.attempt >= Attempts THEN Returned(probe, "error")
                 ELSE [probe EXCEPT !.pc = "submit", !.attempt = @ + 1]
    /\ inflight' = inflight \ {CallOf(probe)}
    /\ UNCHANGED <<appVars, issued>>

\* future.result raises FuturesTimeoutError: future.cancel() does not stop a
\* call that is running, executor.shutdown(wait=False) returns at once, and
\* the function returns the "timed out" message; the worker goes on.
TimeOut ==
    /\ probe.pc = "waiting" /\ CallOf(probe) \in inflight
    /\ probe' = Returned(probe, "timed_out")
    /\ issued' = Append(issued, Event("timeout", probe))
    /\ UNCHANGED <<appVars, inflight>>

\* An abandoned worker's call ends (it answers, or its own timeout ends it).
AbandonedWorkerEnds ==
    /\ \E c \in inflight :
        /\ ~(probe.pc = "waiting" /\ c = CallOf(probe))
        /\ inflight' = inflight \ {c}
    /\ UNCHANGED <<appVars, probe, issued>>

\* main() after get_endpoint_columns returned: break, or the sleep between
\* game ids and the next game id, or the end of the loop over the game ids.
HandleResult ==
    /\ probe.pc = "returned"
    /\ IF StopsGameLoop(probe.result) \/ probe.game = probe.games
       THEN probe' = NextEndpoint(probe) /\ issued' = <<>>
       ELSE /\ probe' = [probe EXCEPT !.pc = "call", !.game = @ + 1, !.attempt = 0,
                                      !.result = None]
            /\ issued' = issued
    /\ UNCHANGED <<appVars, inflight>>

NextProbe ==
    \/ ProbeMain
    \/ BeginEndpoint
    \/ CallGetEndpointColumns
    \/ Submit
    \/ WorkerReturns
    \/ TimeOut
    \/ AbandonedWorkerEnds
    \/ HandleResult

SpecProbe == InitProbe /\ [][NextProbe]_vars

\* The missing-only entry points run again and again, against a catalog that
\* lists the whole season and no longer changes.
InitRerun ==
    /\ bst = EmptyBag /\ track = EmptyBag /\ pa = EmptyBag
    /\ catalog = Games /\ lgl = EmptyBag /\ files = {} /\ entry = None /\ script = <<>>
    /\ loop = "IDLE" /\ planned = <<>> /\ units = <<>> /\ dispatched = <<>>
    /\ trace = <<>> /\ reads = NoReads /\ atStart = [catalog |-> {}, ledger |-> {}]
    /\ runs = 0 /\ lastCall = NoCall /\ calls = <<>>
    /\ R = {} /\ L = {} /\ missing = <<>> /\ phase = "off"
    /\ columns = <<>> /\ normalized = <<>>
    /\ requested = <<>> /\ reread = {} /\ grouped = <<>>
    /\ probe = NoProbe /\ inflight = {} /\ issued = <<>>

NextRerun ==
    \/ StartUpdateBox
    \/ StartUpdatePotentialAst
    \/ DispatchGame
    \/ DispatchDate
    \/ ExitForRerun

SpecRerun ==
    InitRerun /\ [][NextRerun]_vars
        /\ WF_vars(DispatchGame) /\ WF_vars(DispatchDate) /\ WF_vars(ExitForRerun)

\* The process runs on: a loop that has a unit left takes its next iteration.
FairSpec ==
    Spec /\ WF_vars(DispatchGame) /\ WF_vars(DispatchDate)

\* ------------------------------------------------------------- properties
KeysOf(tbl) == {Key(r) : r \in Rows(tbl)}
UniqueKeys(tbl) ==
    /\ \A r \in Rows(tbl) : CopiesIn(r, tbl) = 1
    /\ \A r1, r2 \in Rows(tbl) : Key(r1) = Key(r2) => r1 = r2
TableOf(ds) ==
    CASE ds = BoxDs -> bst [] ds = TrackDs -> track [] ds = PaDs -> pa [] ds = LglDs -> lgl
PassingPlayers(d) == {PassingFrame(d)[i].player_id : i \in DOMAIN PassingFrame(d)}
\* The keys of the rows a pipeline call has to insert when its fetch succeeds:
\* for potential assists, the fetched players found in the box scores of the
\* unit's games.
AttemptedKeys(c) ==
    CASE c.ds \in {BoxDs, TrackDs} ->
            {Key(BoxFrame(c.unit)[i]) : i \in DOMAIN BoxFrame(c.unit)}
      [] c.ds = LglDs ->
            {<<g, GameTeams(g)[i]>> : g \in Range(c.game_ids), i \in 1..2}
      [] c.ds = PaDs ->
            {<<r.game_id, r.person_id>> :
                r \in {x \in Rows(bst) : /\ x.game_id \in Range(c.game_ids)
                                         /\ x.person_id \in PassingPlayers(c.unit)}}
IsCall(c) == c.ds # None
Conflicting(c) == AttemptedKeys(c) \cap KeysOf(c.before)

\* C1: after any sequence of pipeline runs every table holds at most one
\* entry per (identifier, sub-identifier) key, and a pipeline run for a unit
\* whose rows are all present already leaves the table as it was.
C1_NoDuplicateLedgerEntries ==
    /\ \A ds \in {BoxDs, TrackDs, PaDs, LglDs} : UniqueKeys(TableOf(ds))
    /\ (IsCall(lastCall) /\ AttemptedKeys(lastCall) \subseteq KeysOf(lastCall.before))
          => /\ lastCall.after = lastCall.before
             /\ TableOf(lastCall.ds) = lastCall.before

\* A re-run happened: a conflict-skip pipeline was called for a unit all of
\* whose rows (more than one) were in the table.
C1_Witness ==
    /\ IsCall(lastCall) /\ lastCall.fetchOk /\ lastCall.ds \in {TrackDs, PaDs}
    /\ Cardinality(AttemptedKeys(lastCall)) > 1
    /\ AttemptedKeys(lastCall) \subseteq KeysOf(lastCall.before)

\* C2: row isolation in every pipeline: when a row of the unit violates the
\* uniqueness constraint, the other rows of the unit are committed and the
\* call reports inserted = rows - conflicts and skipped = conflicts.
C2_RowIsolation ==
    (IsCall(lastCall) /\ lastCall.ds \in {BoxDs, LglDs, PaDs} /\ lastCall.fetchOk)
        => /\ ~lastCall.raised
           /\ KeysOf(lastCall.after) = KeysOf(lastCall.before) \cup AttemptedKeys(lastCall)
           /\ lastCall.skipped = Cardinality(Conflicting(lastCall))
           /\ lastCall.inserted =
                 Cardinality(AttemptedKeys(lastCall)) - Cardinality(Conflicting(lastCall))

\* C3: a pipeline run a second time for the same unit with unchanged upstream
\* data completes normally and reports inserted = 0 and skipped = the number
\* of rows the first run inserted (box score traditional, box score player
\* track, potential assists).
C3_SecondRunSkipsAll ==
    (/\ IsCall(lastCall) /\ lastCall.ds \in {BoxDs, TrackDs, PaDs}
     /\ CallKey(lastCall) \in DOMAIN calls
     /\ Len(calls[CallKey(lastCall)]) = 2
     /\ lastCall.fetchOk /\ ~calls[CallKey(lastCall)][1].raised)
        => LET first == calls[CallKey(lastCall)][1]
               second == calls[CallKey(lastCall)][2]
           IN  /\ ~second.raised
               /\ second.inserted = 0
               /\ second.skipped = first.inserted

\* C4: update_league_game_log is safe to re-run: when fetched rows exist in
\* raw.league_game_log already, each is counted as skipped, the call returns
\* without raising, and __main__ goes on to its box-score and
\* potential-assist stages.
C4_GameLogRerunSafe ==
    (entry = "update_league_game_log" /\ IsCall(lastCall) /\ lastCall.fetchOk)
        => /\ ~lastCall.raised
           /\ lastCall.skipped = Cardinality(Conflicting(lastCall))
           /\ loop = "DONE"
           /\ script = <<"update_box_score_traditional_v3", "update_potential_ast_daily">>

Incremental ==
    {"update_box_score_traditional_v3", "update_potential_ast",
     "update_potential_ast_daily"}
RunLoops == Incremental \cup {"update_potential_ast_all"}
\* The identifiers of a unit: its date in the new-dates mode, else its games.
IdsOfUnit(key, game_ids) ==
    IF entry = "update_potential_ast_daily" THEN {key} ELSE Range(game_ids)
Handed == UNION {IdsOfUnit(dispatched[i].unit, dispatched[i].game_ids) : i \in DOMAIN dispatched}
Queued == UNION {IdsOfUnit(units[i].key, units[i].game_ids) : i \in DOMAIN units}

C6_DeltaCorrect ==
    phase = "reconciled"
        => /\ Range(missing) = R \ L
           /\ Len(missing) = Cardinality(R \ L)
           /\ (R \subseteq L => missing = <<>>)

\* Remote and local overlap, and something is missing.
C6_Witness ==
    phase = "reconciled" /\ R \cap L # {} /\ Len(missing) > 1

DispatchedKeys == [i \in DOMAIN dispatched |-> dispatched[i].unit]
KeysOfUnits(us) == [i \in DOMAIN us |-> us[i].key]
\* A run loop drops no unit: what it dispatched and what it still holds are
\* the units it was entered with; it is left only when none remains, and a
\* run is aborted only before its first unit.
RunLoopKeepsUnits ==
    entry \in RunLoops
        => /\ loop \in {"PENDING", "DONE"}
                => DispatchedKeys \o KeysOfUnits(units) = KeysOfUnits(planned)
           /\ loop = "DONE" => units = <<>>
           /\ loop = "PENDING" => units # <<>>
           /\ loop = "ABORTED" => dispatched = <<>>

\* C7: fail-isolated run loops: a unit whose pipeline raises does not stop the
\* loop; every remaining unit is dispatched and the loop reaches DONE, in the
\* per-game loop and in the per-date loop, whatever units fail.
C7_FailIsolatedRunLoop ==
    /\ []RunLoopKeepsUnits
    /\ (entry \in RunLoops /\ loop = "PENDING") ~> (loop = "DONE")

\* A per-date loop went on after a unit that raised.
C7_Witness ==
    /\ entry \in RunLoops \ {"update_box_score_traditional_v3"} /\ loop = "DONE"
    /\ Len(dispatched) > 1 /\ dispatched[1].raised /\ ~dispatched[2].raised

\* C8: units are dispatched in ascending order, each once: game ids in
\* update_box_score_traditional_v3, one unit per distinct date in
\* ingest_potential_ast_for_game_ids; also after a failure.
C8_SortedDispatchOnce ==
    entry \in RunLoops
        => LET ks == DispatchedKeys \o KeysOfUnits(units)
           IN  /\ \A i, j \in DOMAIN ks : i < j => ks[i] < ks[j]
               /\ \A i \in DOMAIN dispatched :
                     IF entry = "update_box_score_traditional_v3"
                     THEN dispatched[i].game_ids = <<dispatched[i].unit>>
                     ELSE \A g \in Range(dispatched[i].game_ids) :
                             GameDate(g) = dispatched[i].unit

\* Two dates were dispatched, the first of them failing.
C8_Witness ==
    /\ entry \in RunLoops \ {"update_box_score_traditional_v3"} /\ loop = "DONE"
    /\ Len(dispatched) > 1 /\ dispatched[1].raised
    /\ Len(dispatched[1].game_ids) > 1

\* The fetched players that are in no box score row of the unit's games.
Unmapped(c) ==
    {p \in PassingPlayers(c.unit) :
        ~\E r \in Rows(bst) : r.game_id \in Range(c.game_ids) /\ r.person_id = p}
Added(c) == Rows(c.after) \ Rows(c.before)

\* C9: mapping gap: a fetched row whose player is in no box score row of the
\* unit's games is not persisted and not counted as inserted, and no entry of
\* raw.potential_ast has a null game_id.
C9_MappingGapDropped ==
    /\ \A r \in Rows(pa) : ~IsNull(r.game_id)
    /\ (IsCall(lastCall) /\ lastCall.ds = PaDs)
          => /\ \A r \in Added(lastCall) : r.person_id \notin Unmapped(lastCall)
             /\ lastCall.inserted = Cardinality(Added(lastCall))
             /\ lastCall.inserted + lastCall.skipped
                   <= Cardinality(PassingPlayers(lastCall.unit) \ Unmapped(lastCall))

\* A date whose fetch has mapped and unmapped players, some of them inserted.
C9_Witness ==
    /\ IsCall(lastCall) /\ lastCall.ds = PaDs /\ lastCall.fetchOk
    /\ Unmapped(lastCall) # {} /\ lastCall.inserted > 1

\* C10: null coercion in every pipeline: a fetched NaN or infinity is stored
\* as NULL; no ledger entry holds a NaN or an infinity.
C10_NoNaNOrInfinityStored ==
    \A ds \in {BoxDs, TrackDs, PaDs, LglDs} :
        \A r \in Rows(TableOf(ds)) : ~IsNaN(r.val) /\ ~IsInf(r.val)

\* A dispatched unit whose fetch returned a frame of zero rows.
ZeroRowUnit(c) ==
    /\ c.fetchOk /\ ~c.raised
    /\ IF c.ds = PaDs THEN PassingFrame(c.unit) = <<>> ELSE BoxFrame(c.unit) = <<>>

\* C11: a zero-row result is not retried indefinitely: over repeated runs of
\* a missing-only entry point, with the catalog and the upstream data
\* unchanged, from some run on no identifier whose fetch returns zero rows is
\* dispatched any more.
C11_ZeroRowNotRetriedForever ==
    <>[](\A i \in DOMAIN dispatched : ~ZeroRowUnit(dispatched[i]))

\* The fetch of a call succeeded and returned a frame of zero rows.
FetchedNothing(c) ==
    /\ c.fetchOk
    /\ IF c.ds = PaDs THEN PassingFrame(c.unit) = <<>> ELSE BoxFrame(c.unit) = <<>>

\* C12: empty result: when the fetch for a unit returns zero rows the
\* pipeline finishes as a success with inserted = 0 and skipped = 0 and the
\* ledger unchanged; nothing is raised to the run loop, which goes on to the
\* next unit.
C12_EmptyResultIsSuccess ==
    entry \in RunLoops =>
        \A i \in DOMAIN dispatched :
            FetchedNothing(dispatched[i])
                => /\ ~dispatched[i].raised
                   /\ dispatched[i].inserted = 0 /\ dispatched[i].skipped = 0
                   /\ dispatched[i].after = dispatched[i].before
                   /\ i = Len(dispatched) => TableOf(dispatched[i].ds) = dispatched[i].before
                   /\ loop \in {"PENDING", "DONE"}
                   /\ i < Len(planned) => (i < Len(dispatched) \/ loop = "PENDING")

\* A zero-row game in the per-game loop, and the loop went on to the next
\* game and ended normally.
C12_Witness ==
    /\ entry = "update_box_score_traditional_v3" /\ loop = "DONE"
    /\ Len(dispatched) > 2
    /\ FetchedNothing(dispatched[2]) /\ dispatched[3].unit > dispatched[2].unit

\* The run of an incremental entry point got its catalog and its ledger and
\* found nothing missing.
NothingMissing ==
    /\ entry \in Incremental /\ loop # "IDLE"
    /\ ~reads.apiFailed
    /\ entry = "update_box_score_traditional_v3" => ~reads.dbFailed
    /\ reads.api \ reads.db = {}

\* C13: when the missing set (or the set of new dates) is empty the run
\* dispatches no unit: no per-unit fetch, no sleep, the ledger unchanged, and
\* the entry point returns normally.
C13_NothingMissingNothingDone ==
    /\ [](NothingMissing
            => /\ loop = "DONE"
               /\ planned = <<>> /\ units = <<>> /\ dispatched = <<>> /\ trace = <<>>)
    /\ [][(NothingMissing' /\ <<entry, runs, script>> # <<entry', runs', script'>>)
            => UNCHANGED <<store, catalog>>]_vars

\* A run that found a catalog whose identifiers are all in the ledger.
C13_Witness ==
    NothingMissing /\ reads.api # {} /\ loop = "DONE"

\* C14: every ledger reader (box scores' get_ingested_game_ids_from_db,
\* potential assists' get_ingested_game_ids_from_db and
\* get_ingested_game_dates_from_db) returns the empty set without raising
\* when its table does not exist, so the run treats every catalog identifier
\* as missing.
C14_MissingTableReadsAsEmpty ==
    (entry \in Incremental /\ loop # "IDLE" /\ reads.dbRead = "no_table" /\ ~reads.apiFailed)
        => /\ loop \in {"PENDING", "DONE"}
           /\ reads.db = {}
           /\ Handed \cup Queued = reads.api

\* C15: the readers' empty-set fallback applies to the missing table only:
\* any other failure of the ledger read is not taken for an empty ledger, so
\* no identifier the ledger holds is treated as missing and dispatched again.
C15_OnlyMissingTableReadsAsEmpty ==
    (entry \in Incremental /\ loop # "IDLE" /\ reads.dbRead = "error" /\ ~reads.apiFailed)
        => /\ atStart.ledger # {} => reads.db # {}
           /\ (Handed \cup Queued) \cap atStart.ledger = {}

\* C16: a failure of a catalog read during discovery is fatal to the run:
\* the entry point ends with the error, no unit is dispatched and the ledger
\* is unchanged.
C16_CatalogFailureIsFatal ==
    /\ []((entry \in RunLoops /\ reads.apiFailed)
            => /\ loop = "ABORTED"
               /\ planned = <<>> /\ units = <<>> /\ dispatched = <<>> /\ trace = <<>>)
    /\ [][reads'.apiFailed => UNCHANGED store]_vars

\* A catalog read failed in a run that had entries in its ledger and
\* identifiers to dispatch.
C16_Witness ==
    /\ entry \in RunLoops /\ reads.apiFailed /\ loop = "ABORTED"
    /\ atStart.ledger # {} /\ reads.api \ reads.db # {}

\* C17: ledger entries are immutable and never deleted: every entry of a
\* table is still there, with the same column values, after any step; the
\* only change to a table is that entries are added.
C17_LedgerEntriesImmutable ==
    [][/\ bst \sqsubseteq bst' /\ track \sqsubseteq track'
       /\ pa \sqsubseteq pa' /\ lgl \sqsubseteq lgl']_vars

\* A pipeline call that met entries of an earlier ingestion and added others.
C17_Witness ==
    /\ IsCall(lastCall) /\ lastCall.ds \in {TrackDs, PaDs}
    /\ Conflicting(lastCall) # {}
    /\ lastCall.after # lastCall.before
    /\ TableOf(lastCall.ds) = lastCall.after

\* The games of the units dispatched so far and of those still queued.
GamesHanded ==
    UNION ({Range(dispatched[i].game_ids) : i \in DOMAIN dispatched}
           \cup {Range(units[i].game_ids) : i \in DOMAIN units})

C19_NormalizationInjective ==
    normalized # <<>>
        => /\ normalized = snake_case_columns(columns)
           /\ \A i, j \in DOMAIN columns :
                 columns[i] # columns[j] => normalized[i] # normalized[j]

\* C20: rate-limit pacing: in every run loop two consecutive per-unit
\* fetches of one run are separated by one sleep, whether the earlier unit
\* succeeded, returned zero rows or raised.
C20_SleepBetweenFetches ==
    entry \in RunLoops
        => \A i \in 1..(Len(trace) - 1) :
              trace[i].ev = "fetch" => trace[i + 1].ev = "sleep"

\* C21: no inter-call sleep after the last unit of a run: a run loop sleeps
\* after a unit only when another unit remains to be dispatched.
C21_NoSleepAfterLastUnit ==
    (entry \in RunLoops /\ trace # <<>> /\ trace[Len(trace)].ev = "sleep")
        => units # <<>>

\* C22: a unit that fails is all-or-nothing for the ledger: whenever a
\* pipeline call raises to its caller (failed request, frame without an
\* expected column, database error in the middle of the row loop), the table
\* is exactly what it was before the call; no subset of the unit's rows stays
\* committed.
C22_FailedUnitLeavesLedger ==
    (IsCall(lastCall) /\ lastCall.raised)
        => /\ lastCall.after = lastCall.before
           /\ TableOf(lastCall.ds) = lastCall.before

\* A call raised in the middle of its row loop, after a row that was not in
\* the table had been inserted.
C22_Witness ==
    /\ IsCall(lastCall) /\ lastCall.raised /\ lastCall.fetchOk
    /\ Conflicting(lastCall) # {}
    /\ AttemptedKeys(lastCall) \ KeysOf(lastCall.before) # {}

\* The number of rows a call had to insert: the rows of the fetched frame,
\* for potential assists the mapped rows; none when the frame lacked a column.
AttemptedRows(c) == IF c.fetch = "ok" THEN Cardinality(AttemptedKeys(c)) ELSE 0

\* C23: reported counts match what was persisted: whenever a pipeline returns
\* normally, its inserted count is the number of entries the call added to
\* the table, and inserted + skipped is the number of rows it attempted to
\* insert (box score traditional, box score player track, potential assists).
C23_CountsMatchLedger ==
    (IsCall(lastCall) /\ ~lastCall.raised /\ lastCall.ds \in {BoxDs, TrackDs, PaDs})
        => /\ lastCall.inserted = Cardinality(Rows(TableOf(lastCall.ds)) \ Rows(lastCall.before))
           /\ lastCall.inserted + lastCall.skipped = AttemptedRows(lastCall)

\* A run of entry point e went through its loop and every unit succeeded.
RunSucceeded(e) ==
    /\ entry = e /\ loop = "DONE" /\ dispatched # <<>>
    /\ \A i \in DOMAIN dispatched : ~dispatched[i].raised
\* A run of entry point e read its catalog and its ledger and has units to
\* dispatch.
RunHasMissing(e) ==
    entry = e /\ loop = "PENDING" /\ reads.dbRead = "ok" /\ ~reads.apiFailed

\* C24: missing-only mode converges: once a run of
\* update_box_score_traditional_v3 or of update_potential_ast has completed
\* with every unit succeeding, and the catalog does not change, a later run of
\* the same entry point computes an empty missing set and dispatches no unit.
C24_MissingOnlyConverges ==
    /\ [](RunSucceeded("update_box_score_traditional_v3")
            => []~RunHasMissing("update_box_score_traditional_v3"))
    /\ [](RunSucceeded("update_potential_ast")
            => []~RunHasMissing("update_potential_ast"))

\* C25: referential invariant of potential assists: every entry written to
\* raw.potential_ast has a (game_id, person_id) pair that is in
\* raw.box_score_traditional_v3 when it is inserted, and its game_id is one of
\* the games of the unit being processed.
C25_PotentialAstRefersToBoxScore ==
    /\ KeysOf(pa) \subseteq KeysOf(bst)
    /\ (IsCall(lastCall) /\ lastCall.ds = PaDs)
          => \A r \in Added(lastCall) :
                /\ Key(r) \in KeysOf(bst)
                /\ r.game_id \in Range(lastCall.game_ids)
                /\ GameDate(r.game_id) = lastCall.unit /\ r.game_date = lastCall.unit

\* A date of two games, only one of them with box score rows: the entries of
\* that game were written.
C25_Witness ==
    /\ IsCall(lastCall) /\ lastCall.ds = PaDs /\ Added(lastCall) # {}
    /\ \E g \in Range(lastCall.game_ids) : RowsOfGame(bst, g) = {}

\* The snapshot file of a game in a data set (the league game log has one
\* file for the season).
Snapshot(ds, g) == <<ds, IF ds = LglDs THEN 0 ELSE g>>

\* C26: pipeline step order: in every pipeline the snapshot file of an
\* identifier is written before any insert for that identifier is attempted,
\* so every entry a unit created, and every row it attempted, has a snapshot
\* file for its identifier, also when the upsert failed afterwards.
C26_SnapshotBeforeUpsert ==
    IsCall(lastCall)
        => /\ \A r \in Added(lastCall) : Snapshot(lastCall.ds, r.game_id) \in files
           /\ lastCall.fetchOk
                => \A k \in AttemptedKeys(lastCall) : Snapshot(lastCall.ds, k[1]) \in files
           /\ (lastCall.raised /\ lastCall.fetch # "error")
                => Snapshot(lastCall.ds, lastCall.unit) \in files

\* The upsert of a unit failed after its snapshot had been written.
C26_Witness ==
    /\ IsCall(lastCall) /\ lastCall.raised /\ lastCall.fetchOk
    /\ Snapshot(lastCall.ds, lastCall.unit) \in files \ lastCall.filesBefore

\* C27: malformed response: when the fetched frame lacks an expected column
\* (no player-id column for potential assists, a column bound in the INSERT
\* statement for box scores) the unit is abandoned as a whole: no ledger
\* entry and no snapshot file is written for it, and the call ends as a
\* failure of the unit, not as a successful result.
C27_MalformedUnitAbandoned ==
    (IsCall(lastCall) /\ lastCall.fetch = "malformed" /\ lastCall.ds \in {BoxDs, PaDs})
        => /\ lastCall.raised
           /\ lastCall.after = lastCall.before
           /\ files = lastCall.filesBefore

\* C28: grouping by date: ingest_potential_ast_for_game_ids makes one unit
\* per distinct date; every requested game id found in the catalog (as read
\* inside the function) is in exactly one unit, each unit holds only
\* requested game ids of its date, and a requested game id that is not in the
\* catalog is in no unit.
C28_GroupedByDate ==
    phase = "grouped"
        => LET found == Range(requested) \cap reread
               InUnit(i) == Range(grouped[i].game_ids)
           IN  /\ \A i, j \in DOMAIN grouped : i # j => grouped[i].key # grouped[j].key
               /\ {grouped[i].key : i \in DOMAIN grouped} = {GameDate(g) : g \in found}
               /\ \A g \in found :
                     /\ Cardinality({i \in DOMAIN grouped : g \in InUnit(i)}) = 1
                     /\ \A i \in DOMAIN grouped :
                           Cardinality({k \in DOMAIN grouped[i].game_ids :
                                           grouped[i].game_ids[k] = g}) <= 1
               /\ \A i \in DOMAIN grouped : \A g \in InUnit(i) :
                     g \in Range(requested) /\ GameDate(g) = grouped[i].key
               /\ \A g \in Range(requested) \ reread :
                     \A i \in DOMAIN grouped : g \notin InUnit(i)

\* Two dates, one of them with two requested games, and a requested game
\* that the catalog does not list.
C28_Witness ==
    /\ phase = "grouped" /\ Len(grouped) > 1
    /\ \E i \in DOMAIN grouped : Len(grouped[i].game_ids) > 1
    /\ Range(requested) \ reread # {}

\* C29: timeout guard: when the guarded upstream call does not finish within
\* the timeout, get_endpoint_columns returns the "timed out" error without
\* waiting for the worker (the call is still running when it returns) and
\* without submitting another attempt, and main() tries no further game id
\* for that endpoint.
C29_TimeoutAbandonsEndpoint ==
    /\ [](\A i \in DOMAIN issued :
            issued[i].ev = "timeout"
                => /\ i = Len(issued)
                   /\ probe.pc = "returned" /\ probe.result = "timed_out"
                   /\ CallOf(probe) = [endpoint |-> issued[i].endpoint,
                                       game |-> issued[i].game,
                                       attempt |-> issued[i].attempt])
    /\ [][(probe.pc = "waiting" /\ probe'.pc = "returned" /\ probe'.result = "timed_out")
            => /\ inflight' = inflight
               /\ CallOf(probe) \in inflight']_vars
    /\ [][(probe.pc = "returned" /\ probe.result = "timed_out")
            => /\ probe'.pc \in {"returned", "endpoint", "done"}
               /\ probe'.pc = "endpoint" => probe'.endpoint = probe.endpoint + 1]_vars

\* The first attempt for the first of several game ids timed out, and its
\* worker is still running.
C29_Witness ==
    /\ probe.pc = "returned" /\ probe.result = "timed_out"
    /\ probe.attempt < Attempts /\ probe.game < probe.games
    /\ CallOf(probe) \in inflight

\* C30: at most one upstream API call is in flight at any time, also in
\* nba_api.py: after get_endpoint_columns has abandoned a call that timed
\* out, no new upstream call is started while the abandoned worker is still
\* running.
C30_OneCallInFlight ==
    Cardinality(inflight) <= 1

=============================================================================
